---- MODULE Spec2Model ----
(***************************************************************************)
(* A model of modpacker's library, src/lib/modpack.js:                     *)
(*   - buildModpack  : diff of the recorded mod list against mods/         *)
(*   - bundleModpack : manifest rewrite and the two archives               *)
(*   - installModpack: download, extract, forge dedupe, copy, registry     *)
(* Spec        is the build flow of src/index.js (buildModpack, then       *)
(*             bundleModpack).                                             *)
(* SpecPath    is the computation of the installation directory from a     *)
(*             manifest name (Node's path module, posix and win32).        *)
(* SpecInstall is a sequence of installModpack invocations.                *)
(* SpecLoad    is loadModpackConfig on every manifest of a bounded set.    *)
(* SpecRace    is two invocations (installs, saveAuth) that load and save  *)
(*             one registry file at the same time.                         *)
(***************************************************************************)
EXTENDS Integers, Sequences, FiniteSets

VARIABLES
    \* ---- build flow -------------------------------------------------------
    pc,          \* position of the build flow
    mods,        \* config.mods: sequence of [filename, client]
    prevMods,    \* config.mods as it was when the last buildModpack was called
    modsDir,     \* <pth>/mods: [files: set of names, dirs: set of names]
    changes,     \* changes returned by the last buildModpack
    runs,        \* number of buildModpack calls made so far
    manifest,    \* <pth>/modpack.yaml: NoFile or the mod list last written to it
    configDir,   \* whether <pth>/config exists
    serverTar,   \* <out>/<name>-v<version>-server.tar.gz: NoFile or its entries
    fullTar,     \* <out>/<name>-v<version>.tar.gz: NoFile or its entries
    \* ---- installation directory ---------------------------------------------
    platform,    \* the platform whose path module is in use
    ppc,         \* "name" before, "dir" after the directory is computed
    pname,       \* config.name of the manifest
    pdir,        \* the minecraftHome computed from it
    \* ---- install flow -----------------------------------------------------
    ipc,             \* position of installModpack
    url,             \* the url being installed: an index into Urls
    modpackerConfig, \* the invocation's in-memory registry
    registry,        \* ~/.modpacker/config.yaml
    staging,         \* os.tmpdir()/modpacker
    installDirs,     \* the directories under ~/.modpacker/modpacks
    forgeJars,       \* the versions with a forge.jar under ~/.modpacker/forge
    config,          \* the manifest loaded from the staged copy
    folderIdx,       \* position of the copy loop in folders
    installs,        \* number of installModpack calls made so far
    succeeded,       \* number of them that resolved
    registryBefore,  \* registry when the current installModpack was called
    dirsBefore,      \* installDirs when the current installModpack was called
    forgeTried,      \* whether this invocation called downloadForge
    reached,         \* the last step this invocation entered
    \* ---- loadModpackConfig ---------------------------------------------------
    lpc,         \* "file" before the call, then "loaded" or "threw"
    obj,         \* what yaml.safeLoad makes of the manifest file
    loaded,      \* the config loadModpackConfig returned
    \* ---- invocations racing on the registry ----------------------------------
    rpc,         \* position of each invocation
    rop,         \* what each invocation is: an install or a saveAuth
    rmem,        \* each invocation's in-memory registry
    rreg,        \* ~/.modpacker/config.yaml
    rseen,       \* the invocations that had saved when each one loaded
    rorder       \* the invocations that saved, in the order of their saves

varsBuild == <<pc, mods, prevMods, modsDir, changes, runs, manifest, configDir,
               serverTar, fullTar>>

varsPath == <<platform, ppc, pname, pdir>>

varsInstall == <<ipc, url, modpackerConfig, registry, staging, installDirs,
                 forgeJars, config, folderIdx, installs, succeeded,
                 registryBefore, dirsBefore, forgeTried, reached>>

varsLoad == <<lpc, obj, loaded>>

varsRace == <<rpc, rop, rmem, rreg, rseen, rorder>>

vars == <<varsBuild, varsPath, varsInstall, varsLoad, varsRace>>

(***************************************************************************)
(* Bounds                                                                  *)
(***************************************************************************)
NumFiles == 3
MaxRuns == 2
MaxNameLen == 7
MaxInstalls == 2

AllNames == <<"a.jar", "b.jar", "c.jar", "d.jar", "e.jar", "f.jar">>
Filenames == {AllNames[i] : i \in 1..NumFiles}

\* a file on disk: absent, or present with its content
NoFile == [exists |-> FALSE, content |-> <<>>]
File(c) == [exists |-> TRUE, content |-> c]

(***************************************************************************)
(* Helpers on sequences                                                    *)
(***************************************************************************)
Range(s) == {s[i] : i \in 1..Len(s)}

InSeq(x, s) == \E i \in 1..Len(s) : s[i] = x

\* s without its element at 1-based position p
RemoveAt(s, p) == [i \in 1..(Len(s) - 1) |-> IF i < p THEN s[i] ELSE s[i + 1]]

\* s without the occurrences of x (delete obj[x])
Without(s, x) == SelectSeq(s, LAMBDA y : y # x)

\* every enumeration order of a finite set
Orders(S) == {s \in [1..Cardinality(S) -> S] : Range(s) = S}

\* the mod lists with unique filenames (the data model's invariant)
ModLists ==
    UNION {{s \in [1..n -> [filename : Filenames, client : BOOLEAN]] :
              \A i, j \in 1..n : i # j => s[i].filename # s[j].filename}
           : n \in 0..NumFiles}

FilenamesOf(ms) == {ms[i].filename : i \in 1..Len(ms)}

(***************************************************************************)
(* buildModpack (modpack.js 234-293)                                       *)
(***************************************************************************)

\* lines 248-257: the pass over config.mods.  hm is foundModshm, as the
\* sequence of its keys in insertion order.
RECURSIVE ScanMods(_, _, _, _)
ScanMods(ms, i, hm, removed) ==
    IF i > Len(ms) THEN [hm |-> hm, removedMods |-> removed]
    ELSE IF InSeq(ms[i].filename, hm)
         THEN ScanMods(ms, i + 1, Without(hm, ms[i].filename), removed)
         ELSE ScanMods(ms, i + 1, hm, Append(removed, ms[i].filename))

\* lines 266-270: for (let i=0; i !== config.mods.length-1; i++).  With an
\* empty list the bound is -1, i never meets it, and config.mods[0].filename
\* throws a TypeError.
ModsIndexMapThrows(ms) == Len(ms) = 0

\* the keys of modsIndexMap: the filenames of all mods but the last
ModsIndexMapKeys(ms) == {ms[i].filename : i \in 1..(Len(ms) - 1)}

\* modsIndexMap[name]: the 0-based index in the list as it was before any
\* splice; a missing key reads undefined, which splice takes as start 0
ModsIndexMap(ms, name) ==
    IF name \in ModsIndexMapKeys(ms)
    THEN (CHOOSE i \in 1..(Len(ms) - 1) : ms[i].filename = name) - 1
    ELSE 0

\* Array.prototype.splice(start, 1) with a 0-based start
Splice1(s, start) == IF start >= Len(s) THEN s ELSE RemoveAt(s, start + 1)

\* lines 274-276: one splice per removed mod, in order, each with the index
\* recorded before the loop
RECURSIVE SpliceRemoved(_, _, _, _)
SpliceRemoved(orig, cur, removed, k) ==
    IF k > Len(removed) THEN cur
    ELSE SpliceRemoved(orig, Splice1(cur, ModsIndexMap(orig, removed[k])),
                       removed, k + 1)

\* lines 279-281
RECURSIVE PushNew(_, _, _)
PushNew(cur, newMods, k) ==
    IF k > Len(newMods) THEN cur
    ELSE PushNew(Append(cur, [filename |-> newMods[k], client |-> FALSE]),
                 newMods, k + 1)

\* the whole function, given config.mods and the filtered readdir result
buildModpack(ms, modFiles) ==
    LET scan == ScanMods(ms, 1, modFiles, <<>>)
        removedMods == scan.removedMods
        newMods == scan.hm
    IN IF ModsIndexMapThrows(ms)
       THEN [threw |-> TRUE, mods |-> ms, newMods |-> <<>>, removedMods |-> <<>>]
       ELSE [threw |-> FALSE,
             mods |-> PushNew(SpliceRemoved(ms, ms, removedMods, 1), newMods, 1),
             newMods |-> newMods,
             removedMods |-> removedMods]

\* lines 235-236: readdir, then the directories are filtered out.  The order
\* readdir returns is the file system's; any order is possible.
ModFiles == Orders(modsDir.files)

NoChanges == [newMods |-> <<>>, removedMods |-> <<>>]

BuildModpack ==
    /\ pc \in {"loaded", "built"}
    /\ runs < MaxRuns
    /\ \E modFiles \in ModFiles :
          LET r == buildModpack(mods, modFiles)
          IN /\ pc' = IF r.threw THEN "threw" ELSE "built"
             /\ mods' = r.mods
             /\ changes' = [newMods |-> r.newMods, removedMods |-> r.removedMods]
    /\ prevMods' = mods
    /\ runs' = runs + 1
    /\ UNCHANGED <<modsDir, manifest, configDir, serverTar, fullTar>>
    /\ UNCHANGED <<varsPath, varsInstall, varsLoad, varsRace>>

(***************************************************************************)
(* bundleModpack (modpack.js 302-354)                                      *)
(***************************************************************************)

\* line 315
serverFiles(ms) == SelectSeq(ms, LAMBDA file : ~file.client)

\* lines 319-320: path.join('mods/', file.filename), as <<"mods", filename>>
PackFiles(ms) == [i \in 1..Len(ms) |-> <<"mods", ms[i].filename>>]

\* line 322
baseFiles == << <<"modpack.yaml">>, <<"config">> >>

\* lines 334-337
ServerEntriesAll(ms) == baseFiles \o PackFiles(ms)
ServerEntries(ms) == baseFiles \o PackFiles(serverFiles(ms))

\* lines 342-345
FullEntries(ms) == baseFiles \o PackFiles(ms)

\* tar.create reads every listed path under cwd; a missing one makes the pack
\* stream emit 'error'
Readable(entries) ==
    \A i \in 1..Len(entries) :
        LET e == entries[i]
        IN IF Len(e) = 2 THEN e[2] \in modsDir.files
           ELSE IF e[1] = "config" THEN configDir
           ELSE manifest.exists

\* line 303: config.mods is a non-empty array
ValidModsAny(ms) == TRUE
ValidMods(ms) == Len(ms) # 0

\* lines 303-309: the two preconditions
BundleValidate ==
    /\ pc \in {"loaded", "built"}
    /\ \/ /\ ~ValidMods(mods)
          /\ pc' = "rejected"
       \/ /\ ValidMods(mods)
          /\ ~manifest.exists
          /\ pc' = "rejected"
       \/ /\ ValidMods(mods)
          /\ manifest.exists
          /\ pc' = "validated"
    /\ UNCHANGED <<mods, prevMods, modsDir, changes, runs, manifest, configDir,
                   serverTar, fullTar>>
    /\ UNCHANGED <<varsPath, varsInstall, varsLoad, varsRace>>

\* lines 311-312: fs.writeFile either writes the dumped config or rejects
BundleWriteManifest ==
    /\ pc = "validated"
    /\ \/ /\ manifest' = File(mods)
          /\ pc' = "manifestWritten"
       \/ /\ manifest' = manifest
          /\ pc' = "rejected"
    /\ UNCHANGED <<mods, prevMods, modsDir, changes, runs, configDir,
                   serverTar, fullTar>>
    /\ UNCHANGED <<varsPath, varsInstall, varsLoad, varsRace>>

\* lines 333-340: the first task of the waterfall.  next is called on the
\* write stream's 'close' only; a stream error reaches no callback, so the
\* promise never settles.
BundleServerArchive ==
    /\ pc = "manifestWritten"
    /\ \/ /\ Readable(ServerEntries(mods))
          /\ serverTar' = File(ServerEntries(mods))
          /\ pc' = "serverWritten"
       \/ /\ serverTar' = serverTar
          /\ pc' = "hung"
    /\ UNCHANGED <<mods, prevMods, modsDir, changes, runs, manifest, configDir,
                   fullTar>>
    /\ UNCHANGED <<varsPath, varsInstall, varsLoad, varsRace>>

\* lines 341-352: the second task, then resolve()
BundleFullArchive ==
    /\ pc = "serverWritten"
    /\ \/ /\ Readable(FullEntries(mods))
          /\ fullTar' = File(FullEntries(mods))
          /\ pc' = "resolved"
       \/ /\ fullTar' = fullTar
          /\ pc' = "hung"
    /\ UNCHANGED <<mods, prevMods, modsDir, changes, runs, manifest, configDir,
                   serverTar>>
    /\ UNCHANGED <<varsPath, varsInstall, varsLoad, varsRace>>

(***************************************************************************)
(* Paths.  A path is a sequence of characters; ".", "/", "\\", ":" and the *)
(* letters are themselves, every longer element stands for a run of        *)
(* ordinary characters.  The functions are those of Node's path module,    *)
(* posix and win32: modpacker is built for windows, mac and linux          *)
(* (scripts/build.js 17).                                                  *)
(***************************************************************************)
Platforms == {"posix", "win32"}

DotDot == <<".", ".">>

\* isPathSeparator: "/" on posix, "/" and "\\" on win32
IsSep(win, c) == c = "/" \/ (win /\ c = "\\")

\* the separator a path is written with
Sep(win) == IF win THEN "\\" ELSE "/"

\* isWindowsDeviceRoot
IsLetter(c) == c \in {"A", "a", "C", "c"}

\* the segments of a path between its separators
RECURSIVE SplitFrom(_, _, _, _, _)
SplitFrom(win, s, i, cur, acc) ==
    IF i > Len(s) THEN Append(acc, cur)
    ELSE IF IsSep(win, s[i]) THEN SplitFrom(win, s, i + 1, <<>>, Append(acc, cur))
    ELSE SplitFrom(win, s, i + 1, Append(cur, s[i]), acc)

Split(win, s) == SplitFrom(win, s, 1, <<>>, <<>>)

RECURSIVE JoinSegs(_, _)
JoinSegs(win, segs) ==
    IF Len(segs) = 0 THEN <<>>
    ELSE IF Len(segs) = 1 THEN segs[1]
    ELSE segs[1] \o <<Sep(win)>> \o JoinSegs(win, Tail(segs))

\* path.normalizeString: empty and "." segments are dropped; ".." pops the
\* last segment unless there is none or it is "..", and then it is kept only
\* when allowAboveRoot
RECURSIVE normalizeString(_, _, _, _)
normalizeString(segs, i, res, allowAboveRoot) ==
    IF i > Len(segs) THEN res
    ELSE IF segs[i] = <<>> \/ segs[i] = <<".">>
         THEN normalizeString(segs, i + 1, res, allowAboveRoot)
    ELSE IF segs[i] = DotDot
         THEN IF Len(res) > 0 /\ res[Len(res)] # DotDot
              THEN normalizeString(segs, i + 1, SubSeq(res, 1, Len(res) - 1),
                                   allowAboveRoot)
              ELSE IF allowAboveRoot
                   THEN normalizeString(segs, i + 1, Append(res, DotDot),
                                        allowAboveRoot)
                   ELSE normalizeString(segs, i + 1, res, allowAboveRoot)
    ELSE normalizeString(segs, i + 1, Append(res, segs[i]), allowAboveRoot)

\* path.posix.normalize
posixNormalize(p) ==
    IF Len(p) = 0 THEN <<".">>
    ELSE LET isAbsolute == p[1] = "/"
             trailingSeparator == p[Len(p)] = "/"
             res == JoinSegs(FALSE,
                       normalizeString(Split(FALSE, p), 1, <<>>, ~isAbsolute))
         IN IF Len(res) = 0
            THEN IF isAbsolute THEN <<"/">>
                 ELSE IF trailingSeparator THEN <<".", "/">> ELSE <<".">>
            ELSE (IF isAbsolute THEN <<"/">> ELSE <<>>) \o res
                 \o (IF trailingSeparator THEN <<"/">> ELSE <<>>)

\* the first position from j on that holds a separator (or no separator),
\* Len(p) + 1 when there is none
SkipTo(p, j, sep) ==
    CHOOSE k \in j..(Len(p) + 1) :
        /\ k = Len(p) + 1 \/ IsSep(TRUE, p[k]) = sep
        /\ \A m \in j..(k - 1) : IsSep(TRUE, p[m]) # sep

\* path.win32.normalize, the root it matches: a UNC root \\server\share, a
\* single leading separator, or a drive X: with or without a separator.
\* uncOnly: the path is a UNC root and nothing more.
win32Root(p) ==
    LET none == [device |-> <<>>, rootEnd |-> 0, isAbsolute |-> FALSE,
                 uncOnly |-> FALSE]
    IN IF Len(p) < 2 THEN none
       ELSE IF IsSep(TRUE, p[1])
       THEN IF IsSep(TRUE, p[2])
            THEN LET j1 == SkipTo(p, 3, TRUE)
                     j2 == SkipTo(p, j1, FALSE)
                     j3 == SkipTo(p, j2, TRUE)
                     unc == <<"\\", "\\">> \o SubSeq(p, 3, j1 - 1) \o <<"\\">>
                 IN IF j1 <= Len(p) /\ j1 # 3 /\ j2 <= Len(p) /\ j2 # j1
                    THEN [device |-> unc \o SubSeq(p, j2, j3 - 1),
                          rootEnd |-> j3 - 1, isAbsolute |-> TRUE,
                          uncOnly |-> j3 = Len(p) + 1]
                    ELSE [none EXCEPT !.isAbsolute = TRUE]
            ELSE [none EXCEPT !.isAbsolute = TRUE, !.rootEnd = 1]
       ELSE IF IsLetter(p[1]) /\ p[2] = ":"
       THEN IF Len(p) > 2 /\ IsSep(TRUE, p[3])
            THEN [device |-> SubSeq(p, 1, 2), rootEnd |-> 3,
                  isAbsolute |-> TRUE, uncOnly |-> FALSE]
            ELSE [device |-> SubSeq(p, 1, 2), rootEnd |-> 2,
                  isAbsolute |-> FALSE, uncOnly |-> FALSE]
       ELSE none

\* path.win32.normalize
win32Normalize(p) ==
    IF Len(p) = 0 THEN <<".">>
    ELSE IF Len(p) = 1 /\ IsSep(TRUE, p[1]) THEN <<"\\">>
    ELSE LET root == win32Root(p)
             rest == SubSeq(p, root.rootEnd + 1, Len(p))
             t0 == JoinSegs(TRUE, normalizeString(Split(TRUE, rest), 1, <<>>,
                                                  ~root.isAbsolute))
             t1 == IF Len(t0) = 0 /\ ~root.isAbsolute THEN <<".">> ELSE t0
             tail == IF Len(t1) > 0 /\ IsSep(TRUE, p[Len(p)])
                     THEN t1 \o <<"\\">> ELSE t1
         IN IF root.uncOnly THEN root.device \o <<"\\">>
            ELSE IF root.isAbsolute THEN root.device \o <<"\\">> \o tail
            ELSE root.device \o tail

\* path.normalize
normalize(win, p) == IF win THEN win32Normalize(p) ELSE posixNormalize(p)

\* path.join: the non-empty arguments joined by the separator, then
\* normalized.  (win32.join also rewrites leading separators of a first
\* argument that begins with one; the first argument here is the home.)
RECURSIVE JoinArgs(_, _, _, _)
JoinArgs(win, args, i, joined) ==
    IF i > Len(args) THEN joined
    ELSE IF Len(args[i]) = 0 THEN JoinArgs(win, args, i + 1, joined)
    ELSE IF Len(joined) = 0 THEN JoinArgs(win, args, i + 1, args[i])
    ELSE JoinArgs(win, args, i + 1, joined \o <<Sep(win)>> \o args[i])

pathJoin(win, args) ==
    LET joined == JoinArgs(win, args, 1, <<>>)
    IN IF Len(joined) = 0 THEN <<".">> ELSE normalize(win, joined)

\* .replace(/^(\.\.(\/|\\|$))+/, ''): every leading "..", each followed by a
\* slash, a backslash or the end of the string, is removed
RECURSIVE StripTraversal(_)
StripTraversal(s) ==
    IF Len(s) >= 3 /\ s[1] = "." /\ s[2] = "." /\ s[3] \in {"/", "\\"}
    THEN StripTraversal(SubSeq(s, 4, Len(s)))
    ELSE IF s = DotDot THEN <<>>
    ELSE s

\* .toLowerCase()
LowerChar(c) == IF c = "A" THEN "a" ELSE IF c = "C" THEN "c" ELSE c
toLowerCase(s) == [i \in 1..Len(s) |-> LowerChar(s[i])]

\* os.homedir()
HomeDir(win) ==
    IF win THEN <<"C", ":", "\\", "Users", "\\", "user">>
    ELSE <<"/", "home", "/", "user">>

\* getMinecraftHome (modpack.js 139-148)
getMinecraftHome(win) == pathJoin(win, <<HomeDir(win), <<".modpacker">>>>)

\* modpack.js 381: the installation directory of a pack named name
minecraftHome(win, name) ==
    pathJoin(win, <<getMinecraftHome(win), <<"modpacks", "/">>,
                    toLowerCase(StripTraversal(normalize(win, name)))>>)

(***************************************************************************)
(* The three parts at rest                                                 *)
(***************************************************************************)
BuildAtRest ==
    /\ pc = "rest"
    /\ mods = <<>>
    /\ prevMods = <<>>
    /\ modsDir = [files |-> {}, dirs |-> {}]
    /\ changes = NoChanges
    /\ runs = 0
    /\ manifest = NoFile
    /\ configDir = FALSE
    /\ serverTar = NoFile
    /\ fullTar = NoFile

PathAtRest ==
    /\ platform = "posix"
    /\ ppc = "rest"
    /\ pname = <<>>
    /\ pdir = <<>>

LoadAtRest ==
    /\ lpc = "rest"
    /\ obj = <<>>
    /\ loaded = <<>>

RaceAtRest ==
    /\ rpc = <<>>
    /\ rop = <<>>
    /\ rmem = <<>>
    /\ rreg = <<>>
    /\ rseen = <<>>
    /\ rorder = <<>>

(***************************************************************************)
(* The build flow (index.js build: load, buildModpack, bundleModpack)      *)
(***************************************************************************)
Dirs == {d \in [files : SUBSET Filenames, dirs : SUBSET Filenames] :
            d.files \cap d.dirs = {}}

InitBuild ==
    /\ pc = "loaded"
    /\ mods \in ModLists
    /\ prevMods = mods
    /\ modsDir \in Dirs
    /\ changes = NoChanges
    /\ runs = 0
    /\ manifest \in {NoFile, File(mods)}
    /\ configDir \in BOOLEAN
    /\ serverTar = NoFile
    /\ fullTar = NoFile

(***************************************************************************)
(* The installation directory of every manifest name                       *)
(***************************************************************************)
NameChars == {".", "/", "\\", ":", "A"}

Names == UNION {[1..n -> NameChars] : n \in 0..MaxNameLen}

InitPath ==
    /\ platform \in Platforms
    /\ ppc = "name"
    /\ pname \in Names
    /\ pdir = <<>>

\* modpack.js 381
ComputeInstallDir ==
    /\ ppc = "name"
    /\ pdir' = minecraftHome(platform = "win32", pname)
    /\ ppc' = "dir"
    /\ UNCHANGED <<platform, pname>>
    /\ UNCHANGED <<varsBuild, varsInstall, varsLoad, varsRace>>

(***************************************************************************)
(* installModpack (modpack.js 360-427) and what it works on                *)
(***************************************************************************)

\* line 403
folders == <<"mods", "config", "modpack.yaml">>

\* the fields of a manifest the install flow reads (Modpack, lines 30-49)
Modpack(name, version, minecraft, forge) ==
    [name |-> name, version |-> version, minecraft |-> minecraft, forge |-> forge]

NoManifest == Modpack(<<>>, "", "", "")

\* an absent manifest file, an absent directory
AbsentManifest == [exists |-> FALSE, content |-> NoManifest]
AbsentDir == [exists |-> FALSE, content |-> {}]

\* a pack's tree: mods/ and config/ with the names of their files, modpack.yaml
Tree(m, c, y) ==
    [f \in Range(folders) |->
        CASE f = "mods" -> m
          [] f = "config" -> c
          [] OTHER -> y]

EmptyTree == Tree(AbsentDir, AbsentDir, AbsentManifest)

\* the packaged archives an install may be given
Archives ==
    << \* pack "a" 1.0.0
       [corrupt |-> FALSE,
        tree |-> Tree(File({"m1.jar"}), File({"c1.cfg"}),
                      File(Modpack(<<"a">>, "1.0.0", "1.12.2", "14.23.5.2847")))],
       \* pack "a" 2.0.0, other mods and config
       [corrupt |-> FALSE,
        tree |-> Tree(File({"m2.jar"}), File({"c2.cfg"}),
                      File(Modpack(<<"a">>, "2.0.0", "1.12.2", "14.23.5.2847")))],
       \* pack "A": another name, another forge
       [corrupt |-> FALSE,
        tree |-> Tree(File({"m3.jar"}), File({"c3.cfg"}),
                      File(Modpack(<<"A">>, "1.0.0", "1.12.2", "14.23.5.2854")))],
       \* pack "b" without forge
       [corrupt |-> FALSE,
        tree |-> Tree(File({"m4.jar"}), File({"c4.cfg"}),
                      File(Modpack(<<"b">>, "1.0.0", "1.12.2", "")))],
       \* pack "a" 3.0.0 packaged without its config directory
       [corrupt |-> FALSE,
        tree |-> Tree(File({"m5.jar"}), AbsentDir,
                      File(Modpack(<<"a">>, "3.0.0", "1.12.2", "14.23.5.2847")))],
       \* an archive that is no modpack: no modpack.yaml
       [corrupt |-> FALSE,
        tree |-> Tree(File({"m6.jar"}), File({"c6.cfg"}), AbsentManifest)],
       \* forge.version without minecraft.version
       [corrupt |-> FALSE,
        tree |-> Tree(File({"m7.jar"}), File({"c7.cfg"}),
                      File(Modpack(<<"b">>, "2.0.0", "", "14.23.5.2847")))],
       \* a file tar cannot read
       [corrupt |-> TRUE, tree |-> EmptyTree] >>

\* the urls given to install: every archive as a local file, one over http
Urls ==
    [i \in 1..Len(Archives) |-> [protocol |-> "file:", archive |-> i]]
    \o << [protocol |-> "http:", archive |-> 1] >>

\* ModpackerConfig (lines 60-76): the registry of a fresh home
ModpackerConfig == [forgeVersions |-> <<>>, auth |-> "", installedModpacks |-> <<>>]

AbsentRegistry == [exists |-> FALSE, content |-> ModpackerConfig]

EmptyStaging == [exists |-> FALSE, tarball |-> 0, tree |-> EmptyTree]

\* installDirs maps each directory that exists under ~/.modpacker/modpacks
\* to its tree; TreeAt reads a directory that may not exist
TreeAt(dirs, d) == IF d \in DOMAIN dirs THEN dirs[d] ELSE EmptyTree

\* fs.mkdirp
Mkdirp(dirs, d) ==
    [k \in DOMAIN dirs \cup {d} |-> IF k \in DOMAIN dirs THEN dirs[k] ELSE EmptyTree]

\* lines 163-171
loadModpackerConfig(reg) == IF reg.exists THEN reg.content ELSE ModpackerConfig

\* lines 154-157
saveModpackerConfig(cfg) == File(cfg)

\* the steps of installModpack that call saveModpackerConfig: line 423 only
PersistsAtForgeToo(step) == step \in {"forge", "save"}
PersistsAt(step) == step = "save"

\* loadModpackConfig (lines 211-226) on the staged manifest: readFile throws
\* on a missing file, and line 221 on forge.version without minecraft.version
loadModpackConfig(file) ==
    [threw |-> \/ ~file.exists
               \/ (file.content.forge # "" /\ file.content.minecraft = ""),
     config |-> file.content]

\* lines 386-387: forge is downloaded when the manifest names a version the
\* registry does not list
NeedsForgeAlways(cfg, forgeVersions) == cfg.forge # ""
NeedsForge(cfg, forgeVersions) ==
    cfg.forge # "" /\ ~InSeq(cfg.forge, forgeVersions)

\* tar.extract into a directory: the archive's files are written over what
\* is there, and what the archive does not hold stays
Extract(old, new) ==
    [f \in Range(folders) |->
        IF ~new[f].exists THEN old[f]
        ELSE IF f = "modpack.yaml" THEN new[f]
        ELSE File(old[f].content \cup new[f].content)]

\* line 421
SetInstalled(cfg, c) ==
    [cfg EXCEPT !.installedModpacks =
        [k \in DOMAIN cfg.installedModpacks \cup {c.name} |->
            IF k = c.name THEN c ELSE cfg.installedModpacks[k]]]

\* line 361
InstallStart ==
    /\ ipc \in {"idle", "done", "failed", "hung"}
    /\ installs < MaxInstalls
    /\ \E u \in 1..Len(Urls) : url' = u
    /\ modpackerConfig' = loadModpackerConfig(registry)
    /\ ipc' = "download"
    /\ config' = NoManifest
    /\ folderIdx' = 1
    /\ installs' = installs + 1
    /\ registryBefore' = registry
    /\ dirsBefore' = installDirs
    /\ forgeTried' = FALSE
    /\ reached' = "start"
    /\ UNCHANGED <<registry, staging, installDirs, forgeJars, succeeded>>
    /\ UNCHANGED <<varsBuild, varsPath, varsLoad, varsRace>>

\* lines 364-365 and downloadFile (95-119) with no dir given: the directory
\* is os.tmpdir()/modpacker, made if missing.  A file: url is copied and a
\* failed copy rejects; an http url is piped to the file and the promise is
\* resolved on 'close' only, so a failed request never settles it.
InstallDownload ==
    /\ ipc = "download"
    /\ reached' = "download"
    /\ \/ /\ staging' = [staging EXCEPT !.exists = TRUE,
                                        !.tarball = Urls[url].archive]
          /\ ipc' = "extract"
       \/ /\ Urls[url].protocol = "file:"
          /\ staging' = [staging EXCEPT !.exists = TRUE]
          /\ ipc' = "failed"
       \/ /\ Urls[url].protocol = "http:"
          /\ staging' = [staging EXCEPT !.exists = TRUE]
          /\ ipc' = "hung"
    /\ UNCHANGED <<url, modpackerConfig, registry, installDirs, forgeJars,
                   config, folderIdx, installs, succeeded, registryBefore,
                   dirsBefore, forgeTried>>
    /\ UNCHANGED <<varsBuild, varsPath, varsLoad, varsRace>>

\* lines 368-372: tar.extract, sync, into the staging directory
InstallExtract ==
    /\ ipc = "extract"
    /\ reached' = "extract"
    /\ \/ /\ Archives[staging.tarball].corrupt
          /\ staging' = staging
          /\ ipc' = "failed"
       \/ /\ ~Archives[staging.tarball].corrupt
          /\ staging' = [staging EXCEPT
                            !.tree = Extract(@, Archives[staging.tarball].tree)]
          /\ ipc' = "load"
    /\ UNCHANGED <<url, modpackerConfig, registry, installDirs, forgeJars,
                   config, folderIdx, installs, succeeded, registryBefore,
                   dirsBefore, forgeTried>>
    /\ UNCHANGED <<varsBuild, varsPath, varsLoad, varsRace>>

\* lines 374-379
InstallLoadConfig ==
    /\ ipc = "load"
    /\ reached' = "load"
    /\ LET r == loadModpackConfig(staging.tree["modpack.yaml"])
       IN \/ /\ r.threw
             /\ config' = config
             /\ ipc' = "failed"
          \/ /\ ~r.threw
             /\ config' = r.config
             /\ ipc' = "forge"
    /\ UNCHANGED <<url, modpackerConfig, registry, staging, installDirs,
                   forgeJars, folderIdx, installs, succeeded, registryBefore,
                   dirsBefore, forgeTried>>
    /\ UNCHANGED <<varsBuild, varsPath, varsLoad, varsRace>>

\* lines 385-395 and downloadForge (126-132): the jar is fetched over http
\* into ~/.modpacker/forge/<version>; making that directory may reject, a
\* failed request never settles
InstallForge ==
    /\ ipc = "forge"
    /\ reached' = "forge"
    /\ \/ /\ NeedsForge(config, modpackerConfig.forgeVersions)
          /\ forgeTried' = TRUE
          /\ forgeJars' = forgeJars \cup {config.forge}
          /\ modpackerConfig' =
                [modpackerConfig EXCEPT
                    !.forgeVersions = Append(@, config.forge)]
          /\ ipc' = "mkdir"
       \/ /\ NeedsForge(config, modpackerConfig.forgeVersions)
          /\ forgeTried' = TRUE
          /\ forgeJars' = forgeJars
          /\ modpackerConfig' = modpackerConfig
          /\ ipc' \in {"failed", "hung"}
       \/ /\ ~NeedsForge(config, modpackerConfig.forgeVersions)
          /\ forgeTried' = FALSE
          /\ forgeJars' = forgeJars
          /\ modpackerConfig' = modpackerConfig
          /\ ipc' = "mkdir"
    /\ registry' = IF PersistsAt("forge")
                   THEN saveModpackerConfig(modpackerConfig')
                   ELSE registry
    /\ UNCHANGED <<url, staging, installDirs, config, folderIdx, installs,
                   succeeded, registryBefore, dirsBefore>>
    /\ UNCHANGED <<varsBuild, varsPath, varsLoad, varsRace>>

\* lines 397-399
InstallMkdir ==
    /\ ipc = "mkdir"
    /\ reached' = "mkdir"
    /\ LET d == minecraftHome(platform = "win32", config.name)
       IN \/ /\ d \in DOMAIN installDirs
             /\ installDirs' = installDirs
             /\ ipc' = "copy"
          \/ /\ d \notin DOMAIN installDirs
             /\ installDirs' = Mkdirp(installDirs, d)
             /\ ipc' = "copy"
          \/ /\ d \notin DOMAIN installDirs
             /\ installDirs' = installDirs
             /\ ipc' = "failed"
    /\ UNCHANGED <<url, modpackerConfig, registry, staging, forgeJars, config,
                   folderIdx, installs, succeeded, registryBefore, dirsBefore,
                   forgeTried>>
    /\ UNCHANGED <<varsBuild, varsPath, varsLoad, varsRace>>

\* lines 405-419, one folder: dest is removed if it exists, statSync throws
\* when src is missing, then src is copied
InstallCopy ==
    /\ ipc = "copy"
    /\ reached' = "copy"
    /\ LET d == minecraftHome(platform = "win32", config.name)
           folder == folders[folderIdx]
           src == staging.tree[folder]
           dest == installDirs[d][folder]
       IN \/ /\ dest.exists
             /\ installDirs' = installDirs
             /\ folderIdx' = folderIdx
             /\ ipc' = "failed"
          \/ /\ ~src.exists
             /\ installDirs' = [installDirs EXCEPT ![d][folder] = EmptyTree[folder]]
             /\ folderIdx' = folderIdx
             /\ ipc' = "failed"
          \/ /\ src.exists
             /\ installDirs' = [installDirs EXCEPT ![d][folder] = EmptyTree[folder]]
             /\ folderIdx' = folderIdx
             /\ ipc' = "failed"
          \/ /\ src.exists
             /\ installDirs' = [installDirs EXCEPT ![d][folder] = src]
             /\ IF folderIdx = Len(folders)
                THEN folderIdx' = folderIdx /\ ipc' = "save"
                ELSE folderIdx' = folderIdx + 1 /\ ipc' = "copy"
    /\ registry' = IF PersistsAt("copy")
                   THEN saveModpackerConfig(modpackerConfig)
                   ELSE registry
    /\ UNCHANGED <<url, modpackerConfig, staging, forgeJars, config, installs,
                   succeeded, registryBefore, dirsBefore, forgeTried>>
    /\ UNCHANGED <<varsBuild, varsPath, varsLoad, varsRace>>

\* lines 421-423
InstallSave ==
    /\ ipc = "save"
    /\ reached' = "save"
    /\ modpackerConfig' = SetInstalled(modpackerConfig, config)
    /\ \/ /\ registry' = IF PersistsAt("save")
                         THEN saveModpackerConfig(modpackerConfig')
                         ELSE registry
          /\ ipc' = "cleanup"
       \/ /\ registry' = registry
          /\ ipc' = "failed"
    /\ UNCHANGED <<url, staging, installDirs, forgeJars, config, folderIdx,
                   installs, succeeded, registryBefore, dirsBefore, forgeTried>>
    /\ UNCHANGED <<varsBuild, varsPath, varsLoad, varsRace>>

\* line 426: await fs.remove(tmpDir), the last statement
InstallCleanup ==
    /\ ipc = "cleanup"
    /\ reached' = "cleanup"
    /\ \/ /\ staging' = EmptyStaging
          /\ ipc' = "done"
          /\ succeeded' = succeeded + 1
       \/ /\ staging' = staging
          /\ ipc' = "failed"
          /\ succeeded' = succeeded
    /\ UNCHANGED <<url, modpackerConfig, registry, installDirs, forgeJars,
                   config, folderIdx, installs, registryBefore, dirsBefore,
                   forgeTried>>
    /\ UNCHANGED <<varsBuild, varsPath, varsLoad, varsRace>>

\* a fresh home: no registry, no staging directory, nothing installed
InitInstall ==
    /\ ipc = "idle"
    /\ url = 0
    /\ modpackerConfig = ModpackerConfig
    /\ registry = AbsentRegistry
    /\ staging = EmptyStaging
    /\ installDirs = <<>>
    /\ forgeJars = {}
    /\ config = NoManifest
    /\ folderIdx = 1
    /\ installs = 0
    /\ succeeded = 0
    /\ registryBefore = AbsentRegistry
    /\ dirsBefore = <<>>
    /\ forgeTried = FALSE
    /\ reached = "none"

InstallAtRest ==
    /\ ipc = "rest"
    /\ url = 0
    /\ modpackerConfig = <<>>
    /\ registry = <<>>
    /\ staging = <<>>
    /\ installDirs = <<>>
    /\ forgeJars = {}
    /\ config = <<>>
    /\ folderIdx = 0
    /\ installs = 0
    /\ succeeded = 0
    /\ registryBefore = <<>>
    /\ dirsBefore = <<>>
    /\ forgeTried = FALSE
    /\ reached = "rest"

(***************************************************************************)
(* loadModpackConfig (modpack.js 211-226) on a parsed manifest.  An object *)
(* is a function from its keys; a key that reads undefined is not in the   *)
(* domain.                                                                 *)
(***************************************************************************)

\* the keys of Modpack (lines 30-49), of its minecraft and forge, of Mod (23-28)
ModpackKeys == {"version", "name", "author", "minecraft", "forge", "mods"}
MinecraftKeys == {"version", "javaArgs"}
ForgeKeys == {"version"}
ModKeys == {"filename", "client"}

\* the objects with keys among ks, each of value v, with or without a key
\* "extra" that the schema does not know
Objects(ks, v) ==
    {[k \in d |-> IF k = "extra" THEN "x" ELSE v] : d \in SUBSET (ks \cup {"extra"})}

\* the manifests a file may hold: each part with or without its keys and
\* with or without an unknown key; a version that is present is not empty
ManifestMods ==
    { <<>>,
      << [filename |-> "a.jar", client |-> TRUE] >>,
      << [filename |-> "a.jar", client |-> TRUE, extra |-> "x"] >> }

Manifests ==
    { [k \in d |->
          CASE k = "minecraft" -> m
            [] k = "forge" -> f
            [] k = "mods" -> ms
            [] OTHER -> "x"] :
        d \in SUBSET (ModpackKeys \cup {"extra"}),
        m \in Objects({"version"}, "1.12.2"),
        f \in Objects({"version"}, "14.23.5.2847"),
        ms \in ManifestMods }

\* lines 215-219: every key of the Modpack template takes obj's value for it
Pluck(o) == [k \in ModpackKeys \cap DOMAIN o |-> o[k]]

\* line 221: config.forge.version && !config.minecraft.version.  Reading
\* .version of an undefined forge or minecraft is a TypeError; the test
\* being true throws the Error of line 222.
ForgeCheckThrows(cfg) ==
    \/ "forge" \notin DOMAIN cfg
    \/ /\ "version" \in DOMAIN cfg.forge
       /\ \/ "minecraft" \notin DOMAIN cfg
          \/ "version" \notin DOMAIN cfg.minecraft

InitLoad ==
    /\ lpc = "file"
    /\ obj \in Manifests
    /\ loaded = <<>>

LoadModpackConfig ==
    /\ lpc = "file"
    /\ LET cfg == Pluck(obj)
       IN IF ForgeCheckThrows(cfg)
          THEN lpc' = "threw" /\ loaded' = loaded
          ELSE lpc' = "loaded" /\ loaded' = cfg
    /\ UNCHANGED obj
    /\ UNCHANGED <<varsBuild, varsPath, varsInstall, varsRace>>

(***************************************************************************)
(* Invocations that run at the same time on one registry file.  Each       *)
(* invocation is an async function: it runs alone between its awaits, and  *)
(* the registry file is touched at two of them, the load (lines 361, 201)  *)
(* and the save (lines 423, 203).  What an install awaits in between       *)
(* (download, extract, copy) works on its own in-memory registry.          *)
(***************************************************************************)
Procs == {1, 2}

\* an invocation: installModpack of a pack, or saveAuth of a token
InstallOf(pack) == [kind |-> "install", pack |-> pack, auth |-> ""]
SaveAuthOf(auth) == [kind |-> "saveAuth", pack |-> NoManifest, auth |-> auth]

RaceOps ==
    { InstallOf(Modpack(<<"a">>, "1.0.0", "1.12.2", "14.23.5.2847")),
      InstallOf(Modpack(<<"A">>, "1.0.0", "1.12.2", "14.23.5.2854")),
      InstallOf(Modpack(<<"b">>, "1.0.0", "1.12.2", "")),
      SaveAuthOf("token") }

\* lines 385-395 and 421 for an install, line 202 for saveAuth: what the
\* invocation does to its in-memory registry between its load and its save
Mutate(op, cfg) ==
    IF op.kind = "saveAuth" THEN [cfg EXCEPT !.auth = op.auth]
    ELSE SetInstalled(
            IF NeedsForge(op.pack, cfg.forgeVersions)
            THEN [cfg EXCEPT !.forgeVersions = Append(@, op.pack.forge)]
            ELSE cfg,
            op.pack)

\* lines 154-157: fs.writeFile puts the dump of the in-memory registry in
\* place of whatever the file held
WriteMerged(file, cfg) ==
    File([forgeVersions |->
             file.content.forgeVersions
             \o SelectSeq(cfg.forgeVersions,
                          LAMBDA v : ~InSeq(v, file.content.forgeVersions)),
          auth |-> IF cfg.auth # "" THEN cfg.auth ELSE file.content.auth,
          installedModpacks |->
             [k \in DOMAIN cfg.installedModpacks
                      \cup DOMAIN file.content.installedModpacks |->
                 IF k \in DOMAIN cfg.installedModpacks
                 THEN cfg.installedModpacks[k]
                 ELSE file.content.installedModpacks[k]]])
WriteRegistry(file, cfg) == saveModpackerConfig(cfg)

\* a registry left by an earlier install of a pack "c"
RegistryWithC ==
    File(SetInstalled(ModpackerConfig, Modpack(<<"c">>, "1.0.0", "1.12.2", "")))

InitRace ==
    /\ rpc = [p \in Procs |-> "start"]
    /\ rop \in {f \in [Procs -> RaceOps] : f[1] # f[2]}
    /\ rmem = [p \in Procs |-> ModpackerConfig]
    /\ rreg \in {AbsentRegistry, RegistryWithC}
    /\ rseen = [p \in Procs |-> {}]
    /\ rorder = <<>>

\* line 361 (installModpack), line 201 (saveAuth)
RaceLoad(p) ==
    /\ rpc[p] = "start"
    /\ rmem' = [rmem EXCEPT ![p] = loadModpackerConfig(rreg)]
    /\ rseen' = [rseen EXCEPT ![p] = Range(rorder)]
    /\ rpc' = [rpc EXCEPT ![p] = "loaded"]
    /\ UNCHANGED <<rop, rreg, rorder>>
    /\ UNCHANGED <<varsBuild, varsPath, varsInstall, varsLoad>>

\* lines 364-423 (installModpack), lines 202-203 (saveAuth): the in-memory
\* registry is changed and written, or a step on the way rejects and
\* nothing is written
RaceSave(p) ==
    /\ rpc[p] = "loaded"
    /\ \/ /\ rmem' = [rmem EXCEPT ![p] = Mutate(rop[p], @)]
          /\ rreg' = WriteRegistry(rreg, rmem'[p])
          /\ rorder' = Append(rorder, p)
          /\ rpc' = [rpc EXCEPT ![p] = "done"]
       \/ /\ UNCHANGED <<rmem, rreg, rorder>>
          /\ rpc' = [rpc EXCEPT ![p] = "failed"]
    /\ UNCHANGED <<rop, rseen>>
    /\ UNCHANGED <<varsBuild, varsPath, varsInstall, varsLoad>>

(***************************************************************************)
(* Specifications                                                          *)
(***************************************************************************)
Init == InitBuild /\ PathAtRest /\ InstallAtRest /\ LoadAtRest /\ RaceAtRest

Next ==
    \/ BuildModpack
    \/ BundleValidate
    \/ BundleWriteManifest
    \/ BundleServerArchive
    \/ BundleFullArchive

Spec == Init /\ [][Next]_vars

InitP == BuildAtRest /\ InitPath /\ InstallAtRest /\ LoadAtRest /\ RaceAtRest

NextP == ComputeInstallDir

SpecPath == InitP /\ [][NextP]_vars

InitI == BuildAtRest /\ PathAtRest /\ InitInstall /\ LoadAtRest /\ RaceAtRest

NextI ==
    \/ InstallStart
    \/ InstallDownload
    \/ InstallExtract
    \/ InstallLoadConfig
    \/ InstallForge
    \/ InstallMkdir
    \/ InstallCopy
    \/ InstallSave
    \/ InstallCleanup

SpecInstall == InitI /\ [][NextI]_vars

InitL == BuildAtRest /\ PathAtRest /\ InstallAtRest /\ InitLoad /\ RaceAtRest

NextL == LoadModpackConfig

SpecLoad == InitL /\ [][NextL]_vars

InitR == BuildAtRest /\ PathAtRest /\ InstallAtRest /\ LoadAtRest /\ InitRace

NextR == \E p \in Procs : RaceLoad(p) \/ RaceSave(p)

SpecRace == InitR /\ [][NextR]_vars

(***************************************************************************)
(* Claims about buildModpack and bundleModpack (Spec)                      *)
(***************************************************************************)

\* C1: after buildModpack the filenames of the updated mod list are exactly
\* the non-directory filenames on disk.
C1_ListMatchesDisk ==
    (pc = "built" /\ runs = 1) => FilenamesOf(mods) = modsDir.files

\* what buildModpack reports when it returns: removedMods is the recorded
\* filenames that are not on disk, newMods the on-disk filenames that were
\* not recorded, each once, and mods=[a,b] against {b,c} gives
\* removedMods=[a], newMods=[c] and the list [b, {c, client:false}]
ChangesExactOnReturn ==
    pc = "built" =>
        /\ Range(changes.removedMods) = FilenamesOf(prevMods) \ modsDir.files
        /\ Range(changes.newMods) = modsDir.files \ FilenamesOf(prevMods)
        /\ Len(changes.removedMods) = Cardinality(Range(changes.removedMods))
        /\ Len(changes.newMods) = Cardinality(Range(changes.newMods))
        /\ Range(changes.newMods) \cap Range(changes.removedMods) = {}
        /\ ( /\ Len(prevMods) = 2
             /\ prevMods[1].filename = "a.jar"
             /\ prevMods[2].filename = "b.jar"
             /\ modsDir.files = {"b.jar", "c.jar"} )
           => /\ changes.removedMods = <<"a.jar">>
              /\ changes.newMods = <<"c.jar">>
              /\ mods = <<prevMods[2], [filename |-> "c.jar", client |-> FALSE]>>

\* C2: every call of buildModpack reports removedMods as exactly the recorded
\* filenames that are not on disk and newMods as exactly the on-disk
\* filenames that were not recorded, the two disjoint; mods=[a,b] against
\* {b,c} gives removedMods=[a], newMods=[c] and the list [b, {c, client:false}].
C2_ChangesExact ==
    pc \in {"built", "threw"} => (pc = "built" /\ ChangesExactOnReturn)

\* C3: a second buildModpack on the modpack the first returned, against the
\* same directory, reports no new and no removed mods and leaves the list as
\* it was.
C3_Idempotent ==
    (pc = "built" /\ runs = 2) => (changes = NoChanges /\ mods = prevMods)

ModEntries(entries) ==
    {entries[i] : i \in {j \in 1..Len(entries) : Len(entries[j]) = 2}}

\* C4: when bundleModpack resolves, the server archive's mod entries are
\* exactly the mods with client=false, the full archive's are all the mods,
\* and both hold modpack.yaml and config.
C4_Archives ==
    pc = "resolved" =>
        /\ serverTar.exists
        /\ fullTar.exists
        /\ ModEntries(serverTar.content) =
              {<<"mods", mods[i].filename>> :
                  i \in {j \in 1..Len(mods) : ~mods[j].client}}
        /\ ModEntries(fullTar.content) =
              {<<"mods", f>> : f \in FilenamesOf(mods)}
        /\ \A t \in {serverTar, fullTar} :
              /\ InSeq(<<"modpack.yaml">>, t.content)
              /\ InSeq(<<"config">>, t.content)

C4_Witness ==
    /\ pc = "resolved"
    /\ \E i \in 1..Len(mods) : mods[i].client
    /\ \E i \in 1..Len(mods) : ~mods[i].client
    /\ manifest = File(mods)

\* C11: bundleModpack called with an empty mod list fails before anything is
\* written: the manifest is not rewritten and neither archive is created.
C11_EmptyModsRejected ==
    [][(Len(mods) = 0 /\ runs' = runs)
          => /\ pc' = "rejected"
             /\ manifest' = manifest
             /\ serverTar' = NoFile
             /\ fullTar' = NoFile]_vars

C11_Witness ==
    /\ pc = "rejected"
    /\ Len(mods) = 0
    /\ runs = 1
    /\ manifest.exists
    /\ manifest # File(mods)
    /\ serverTar = NoFile
    /\ fullTar = NoFile

\* the recorded mods whose file is on disk, in their recorded order
OnDisk(ms) == SelectSeq(ms, LAMBDA m : m.filename \in modsDir.files)

\* C13: after buildModpack every recorded mod whose filename is on disk is
\* still in the list, with its client flag and in the same relative order.
C13_PresentModsKept ==
    pc = "built" =>
        SelectSeq(mods, LAMBDA m : m \in Range(OnDisk(prevMods))) = OnDisk(prevMods)

(***************************************************************************)
(* Claims about installModpack (SpecInstall)                               *)
(***************************************************************************)

\* C5: an install that fails at any step before the registry write leaves
\* the persisted registry exactly as it was when the install began.
C5_FailedInstallKeepsRegistry ==
    ( /\ ipc \in {"failed", "hung"}
      /\ reached \in {"download", "extract", "load", "forge", "mkdir", "copy"} )
    => registry = registryBefore

C5_Witness ==
    /\ ipc = "failed"
    /\ reached = "copy"
    /\ forgeTried
    /\ InSeq(config.forge, modpackerConfig.forgeVersions)
    /\ registryBefore.exists
    /\ registry = registryBefore

\* C6: an install that fails leaves the files of a previously installed pack
\* of the same name exactly as they were.
C6_FailedInstallKeepsFiles ==
    ( /\ ipc = "failed"
      /\ config.name \in DOMAIN registryBefore.content.installedModpacks )
    => TreeAt(installDirs, minecraftHome(FALSE, config.name))
         = TreeAt(dirsBefore, minecraftHome(FALSE, config.name))

\* C7: with forge.version set, forge is downloaded if and only if the version
\* is not in the registry's forgeVersions; after a successful download the
\* version is in forgeVersions, in memory and in the registry once saved.
C7_ForgeDedupe ==
    reached \in {"forge", "mkdir", "copy", "save", "cleanup"} =>
        /\ forgeTried <=>
              ( /\ config.forge # ""
                /\ ~InSeq(config.forge,
                          loadModpackerConfig(registryBefore).forgeVersions) )
        /\ (forgeTried /\ ~(reached = "forge" /\ ipc \in {"failed", "hung"}))
              => InSeq(config.forge, modpackerConfig.forgeVersions)
        /\ (forgeTried /\ reached = "cleanup")
              => InSeq(config.forge, registry.content.forgeVersions)
        /\ forgeTried => config.forge \in forgeJars \/ ipc \in {"failed", "hung"}

C7_Witness ==
    /\ ipc = "done"
    /\ config.forge # ""
    /\ ~forgeTried
    /\ InSeq(config.forge, registryBefore.content.forgeVersions)
    /\ Len(registry.content.forgeVersions) = 1

Segments(win, p) == SelectSeq(Split(win, p), LAMBDA x : x # <<>>)

\* p is an absolute path that names something below root
StrictlyInside(win, p, root) ==
    LET ps == Segments(win, p)
        rs == Segments(win, root)
    IN /\ Len(ps) > Len(rs)
       /\ SubSeq(ps, 1, Len(rs)) = rs
       /\ \A i \in 1..Len(ps) : ps[i] # DotDot /\ ps[i] # <<".">>

\* C8 (SpecPath): for every manifest name the installation directory is a
\* path strictly inside the registry home.
C8_InsideHome ==
    ppc = "dir" =>
        StrictlyInside(platform = "win32", pdir,
                       getMinecraftHome(platform = "win32"))

\* the same on POSIX alone
InsideHomePosix ==
    (ppc = "dir" /\ platform = "posix") =>
        StrictlyInside(FALSE, pdir, getMinecraftHome(FALSE))

\* C9: when installModpack returns, with success or with failure, the
\* staging directory has been removed.
C9_StagingRemoved ==
    ipc \in {"done", "failed"} => ~staging.exists

\* C10: an install whose steps through the registry save all succeeded
\* reports success, whatever the removal of the staging directory did.
C10_CleanupFailureSuppressed ==
    (ipc \in {"done", "failed"} /\ reached = "cleanup") => ipc = "done"

\* the tree an install of url u is to put in place
Installed(u) == Archives[Urls[u].archive].tree

\* C14: whatever installs came before, failed ones included, the mods, config
\* and manifest in the installation directory after an install are exactly
\* those of the archive that was installed.
C14_FreshStaging ==
    ipc = "done" =>
        TreeAt(installDirs, minecraftHome(FALSE, config.name)) = Installed(url)

\* C15: a failed archive write of bundleModpack and a failed download of
\* installModpack reject the operation's promise: it never stays unsettled.
C15_FailuresSurface ==
    /\ pc # "hung"
    /\ ~(ipc = "hung" /\ reached = "download")

\* C17: after a sequence of successful installs every key of
\* installedModpacks has an installation directory that holds the manifest
\* recorded under the key, and two keys never share a directory.
C17_RegistryMatchesDirs ==
    (ipc = "done" /\ succeeded = installs) =>
        LET packs == registry.content.installedModpacks
        IN /\ \A k \in DOMAIN packs :
                 TreeAt(installDirs, minecraftHome(FALSE, k))["modpack.yaml"]
                    = File(packs[k])
           /\ \A j, k \in DOMAIN packs :
                 j # k => minecraftHome(FALSE, j) # minecraftHome(FALSE, k)

(***************************************************************************)
(* Claims about loadModpackConfig (SpecLoad)                               *)
(***************************************************************************)

\* cfg has no key outside the schema, at the top level, inside minecraft and
\* forge, and inside each mod
OnlySchema(cfg) ==
    /\ DOMAIN cfg \subseteq ModpackKeys
    /\ "minecraft" \in DOMAIN cfg => DOMAIN cfg.minecraft \subseteq MinecraftKeys
    /\ "forge" \in DOMAIN cfg => DOMAIN cfg.forge \subseteq ForgeKeys
    /\ "mods" \in DOMAIN cfg =>
          \A i \in 1..Len(cfg.mods) : DOMAIN cfg.mods[i] \subseteq ModKeys

\* C12: the object loadModpackConfig returns holds only the fields of the
\* schema: every other field of the manifest, at the top level or inside
\* minecraft, forge or a mod, is absent from it.
C12_OnlySchemaFields ==
    lpc = "loaded" => OnlySchema(loaded)

\* the top level alone
TopLevelOnlySchema ==
    lpc = "loaded" => DOMAIN loaded \subseteq ModpackKeys

(***************************************************************************)
(* Claims about invocations racing on the registry (SpecRace)              *)
(***************************************************************************)

\* the registry cfg holds the update of invocation op
HasUpdate(cfg, op) ==
    IF op.kind = "saveAuth" THEN cfg.auth = op.auth
    ELSE /\ op.pack.name \in DOMAIN cfg.installedModpacks
         /\ cfg.installedModpacks[op.pack.name] = op.pack
         /\ op.pack.forge # "" => InSeq(op.pack.forge, cfg.forgeVersions)

BothSaved == Len(rorder) = 2

\* the second to save had loaded before the first saved
Overlapped == BothSaved /\ rorder[1] \notin rseen[rorder[2]]

\* C16: the file is always the whole in-memory registry of the last
\* invocation that saved.  When two invocations both succeed and the second
\* to save loaded before the first saved, the persisted registry lacks the
\* first one's update; when they ran one after the other it holds both.
C16_LastWriterWins ==
    /\ Len(rorder) > 0 =>
          /\ rreg = File(rmem[rorder[Len(rorder)]])
          /\ HasUpdate(rreg.content, rop[rorder[Len(rorder)]])
    /\ Overlapped => ~HasUpdate(rreg.content, rop[rorder[1]])
    /\ (BothSaved /\ ~Overlapped) =>
          \A p \in Procs : HasUpdate(rreg.content, rop[p])

\* an install and a saveAuth overlapped, both succeeded, the install saved
\* first and its pack is not in the registry
C16_Witness ==
    /\ Overlapped
    /\ \A p \in Procs : rpc[p] = "done"
    /\ rop[rorder[1]].kind = "install"
    /\ rop[rorder[2]].kind = "saveAuth"
    /\ rreg.content.auth = "token"
    /\ rop[rorder[1]].pack.name \notin DOMAIN rreg.content.installedModpacks

====
